---- MODULE Spec2Model ----
(***************************************************************************)
(* Model of bevy_hectic_utils (src/crate/bevy_hectic_utils/src/lib.rs):    *)
(* the exact-coverage validator validate_hash_map, its asserting macro,    *)
(* the two map-literal macros, and the test helpers measure_time and       *)
(* enable_loggings.                                                        *)
(*                                                                         *)
(* A HashMap is a sequence of entries [key, val] with pairwise distinct    *)
(* keys; the position of an entry stands for its bucket, so two maps with  *)
(* the same entries in another order are different values of the model.    *)
(* The validator only uses len() and contains_key().                       *)
(***************************************************************************)
EXTENDS Integers, Sequences, FiniteSets, TLC

\* ---- bounds ----
MaxKey == 3
MaxVal == 2
MaxCalls == 2
MaxPairs == 3
NumCallers == 2
NumThreads == 2
MaxTimes == 3
MaxCost == 2
MaxLogCalls == 3
MaxLines == 3

\* Every value of the key type K.  K::iter() yields a subset of them (strum
\* yields each variant once; a variant that carries data is yielded with its
\* default payload only, so K may have values the iteration never produces).
KeyUniverse == 1..MaxKey
Values == 1..MaxVal

VARIABLES
    all_keys,   \* K::iter().collect::<Vec<_>>() of the key type in use
    hash_map,   \* the caller's map
    map_type,   \* the HashMap type of the caller's map
    before,     \* the map as it was when the last operation started
    op,         \* the last operation performed
    verdicts,   \* results of the validate_hash_map calls since the map last changed
    panicked,   \* an assert! failed
    lit,        \* the map-literal macro just expanded, if it was the last operation
    \* concurrent callers of validate_hash_map, one frame each
    pc,         \* position of each caller in validate_hash_map
    local_keys, \* each caller's all_keys vector
    idx,        \* each caller's position in its for loop
    ret,        \* each caller's return value
    \* test::measure_time
    t_pc,        \* position in measure_time
    times,       \* the Times argument
    cost,        \* time one invocation of the predicate takes
    loop_i,      \* the loop variable of  for _ in 0..end
    invocations, \* how often the predicate has been invoked
    now,         \* the monotonic clock (Instant::now())
    start,       \* let start = Instant::now()
    avg,         \* the Duration returned
    \* test::enable_loggings and the log facade
    rust_log,    \* the environment variable RUST_LOG
    logger,      \* the process-wide logger: "none" or the filter it was built with
    max_level,   \* log::max_level()
    installs,    \* successful set_boxed_logger calls
    log_calls,   \* completed enable_loggings calls
    log_started, \* enable_loggings calls begun
    log_panicked,\* an enable_loggings call panicked
    output,      \* lines the logger has written
    log_pc,      \* position of each test thread in enable_loggings
    log_filter   \* the filter of the builder each thread holds

seqVars == <<map_type, before, op, verdicts, panicked, lit>>
concVars == <<pc, local_keys, idx, ret>>
timeVars == <<t_pc, times, cost, loop_i, invocations, now, start, avg>>
logVars == <<rust_log, logger, max_level, installs, log_calls, log_started, log_panicked, output, log_pc, log_filter>>
vars == <<all_keys, hash_map, seqVars, concVars, timeVars, logVars>>

Callers == 1..NumCallers

Threads == 1..NumThreads

\* ---- HashMap operations used by the library ----
KeySet(m) == {m[i].key : i \in 1..Len(m)}

len(m) == Len(m)

contains_key(m, k) == \E i \in 1..Len(m) : m[i].key = k

get(m, k) == LET i == CHOOSE j \in 1..Len(m) : m[j].key = k IN m[i].val

\* HashMap::insert: overwrite the value of an existing key, else add an entry.
insert(m, k, v) ==
    IF contains_key(m, k)
    THEN [i \in 1..Len(m) |-> IF m[i].key = k THEN [key |-> k, val |-> v] ELSE m[i]]
    ELSE Append(m, [key |-> k, val |-> v])

\* ---- validate_hash_map ----
\* for key in all_keys { if !hash_map.contains_key(&key) { return false; } } true
RECURSIVE ScanKeys(_, _, _)
ScanKeys(m, keys, i) ==
    IF i > Len(keys) THEN TRUE
    ELSE IF ~contains_key(m, keys[i]) THEN FALSE
    ELSE ScanKeys(m, keys, i + 1)

\* Variants of validate_hash_map with one slip each.
\* an empty enumeration is treated as invalid
validate_nonempty_only(m, keys) ==
    IF Len(keys) = 0 \/ len(m) # Len(keys) THEN FALSE
    ELSE ScanKeys(m, keys, 1)

\* the count comparison is left out
validate_no_len_check(m, keys) == ScanKeys(m, keys, 1)

\* the count comparison is inverted (== for !=)
validate_len_inverted(m, keys) ==
    IF len(m) = Len(keys) THEN FALSE
    ELSE ScanKeys(m, keys, 1)

\* the map's keys are compared with the enumeration position by position
validate_positional(m, keys) ==
    IF len(m) # Len(keys) THEN FALSE
    ELSE \A i \in 1..Len(keys) : m[i].key = keys[i]

validate_hash_map(m, keys) ==
    IF len(m) # Len(keys) THEN FALSE
    ELSE ScanKeys(m, keys, 1)

\* ---- map-literal macros ----
\* The macros name HashMap by a path that is resolved where they are used.
\* What the bare name HashMap denotes there: nothing (no import),
\* std::collections::HashMap, hashbrown's HashMap (the import of lib.rs line 2)
\* or the alias bevy_utils::HashMap of the macros' doc examples, which fixes
\* the hasher to BuildHasherDefault<AHasher>.
CallSites == {"none", "std", "hashbrown", "bevy_utils"}

\* the type a path names at a call site
TypeAt(path, site) ==
    IF path = <<"HashMap">>
    THEN (IF site = "none" THEN "unresolved" ELSE site)
    ELSE IF path \in { <<"std", "collections", "HashMap">>,
                       <<"std", "collections", "hash_map", "HashMap">> }
    THEN "std"
    ELSE "unresolved"

\* <type>::new() exists for a HashMap with its default hasher only
HasNew(type) == type \in {"std", "hashbrown"}

\* $( map.insert($key, $val); )*
RECURSIVE InsertAll(_, _, _)
InsertAll(m, pairs, i) ==
    IF i > Len(pairs) THEN m
    ELSE InsertAll(insert(m, pairs[i][1], pairs[i][2]), pairs, i + 1)

\* {{ let mut map = <path>::new(); $( map.insert($key, $val); )* map }}
\* ok is FALSE when the expansion does not compile, and then no map exists.
Expand(path, site, pairs) ==
    LET type == TypeAt(path, site) IN
    IF HasNew(type)
    THEN [ok |-> TRUE, type |-> type, map |-> InsertAll(<<>>, pairs, 1)]
    ELSE [ok |-> FALSE, type |-> type, map |-> <<>>]

ns_hashmap(site, pairs) == Expand(<<"HashMap">>, site, pairs)

hashmap(site, pairs) == Expand(<<"std", "hashmap", "HashMap">>, site, pairs)

\* ---- the enumerations K::iter() can be: declaration order, no repeats ----
RECURSIVE Ascending(_)
Ascending(S) ==
    IF S = {} THEN <<>>
    ELSE LET x == CHOOSE y \in S : \A z \in S : y <= z
         IN <<x>> \o Ascending(S \ {x})

Enumerations == {Ascending(S) : S \in SUBSET KeyUniverse}

NoLit == [macro |-> "none", site |-> "none", pairs |-> <<>>, ok |-> TRUE]

RECURSIVE SeqsUpTo(_, _)
SeqsUpTo(S, n) ==
    IF n = 0 THEN {<<>>}
    ELSE LET shorter == SeqsUpTo(S, n - 1)
         IN shorter \cup {Append(q, x) : q \in {r \in shorter : Len(r) = n - 1}, x \in S}

PairSeqs == SeqsUpTo(KeyUniverse \X Values, MaxPairs)

\* validate_hash_map takes a &HashMap of hashbrown (lib.rs line 2)
SeqIdle ==
    /\ map_type = "hashbrown"
    /\ before = <<>>
    /\ op = "new"
    /\ verdicts = <<>>
    /\ panicked = FALSE
    /\ lit = NoLit

ConcIdle ==
    /\ pc = [p \in Callers |-> "idle"]
    /\ local_keys = [p \in Callers |-> <<>>]
    /\ idx = [p \in Callers |-> 0]
    /\ ret = [p \in Callers |-> FALSE]

\* ---- Times: a u64, kept as four 16-bit words, most significant first ----
Word == 65536

\* Times::from(n) for a count below 2^31
TimesOf(n) == <<0, 0, n \div Word, n % Word>>

\* impl Default for Times
DefaultTimes == TimesOf(100000)

\* impl Into<u32> for Times: self.0 as u32, the low 32 bits
into_u32(t) == <<t[3], t[4]>>

\* impl Into<i32> for Times: self.0 as i32, the low 32 bits as two's complement
into_i32(t) ==
    IF t[3] >= Word \div 2 THEN (t[3] - Word) * Word + t[4]
    ELSE t[3] * Word + t[4]

\* Duration / u32 (nanoseconds, rounded down); the clock of the model stays
\* below 2^31, so a divisor of 2^31 or more gives zero.
DivDuration(d, u) ==
    IF u[1] >= Word \div 2 THEN 0
    ELSE d \div (u[1] * Word + u[2])

TimeIdle ==
    /\ t_pc = "idle"
    /\ times = TimesOf(0)
    /\ cost = 0
    /\ loop_i = 0
    /\ invocations = 0
    /\ now = 0
    /\ start = 0
    /\ avg = 0

LogFresh ==
    /\ logger = "none"
    /\ max_level = "Off"
    /\ installs = 0
    /\ log_calls = 0
    /\ log_started = 0
    /\ log_panicked = FALSE
    /\ output = <<>>
    /\ log_pc = [t \in Threads |-> "idle"]
    /\ log_filter = [t \in Threads |-> "Off"]

LogIdle ==
    /\ rust_log = "unset"
    /\ LogFresh

Init ==
    /\ all_keys \in Enumerations
    /\ hash_map = <<>>
    /\ SeqIdle
    /\ ConcIdle
    /\ TimeIdle
    /\ LogIdle

\* map.insert(k, v) by the caller
Insert ==
    /\ ~panicked
    /\ lit.ok
    /\ \E k \in KeyUniverse, v \in Values :
         /\ hash_map' = insert(hash_map, k, v)
         /\ before' = hash_map
         /\ op' = "insert"
         /\ verdicts' = <<>>
         /\ lit' = NoLit
         /\ UNCHANGED <<all_keys, map_type, panicked, concVars, timeVars, logVars>>

\* A call whose membership test takes the key out of the map
\* (remove(&key).is_some() for contains_key(&key)).
CallDraining ==
    /\ ~panicked
    /\ lit.ok
    /\ map_type = "hashbrown"
    /\ Len(verdicts) < MaxCalls
    /\ verdicts' = Append(verdicts, validate_hash_map(hash_map, all_keys))
    /\ hash_map' = IF len(hash_map) # Len(all_keys) THEN hash_map
                   ELSE SelectSeq(hash_map,
                            LAMBDA e : \A i \in 1..Len(all_keys) : all_keys[i] # e.key)
    /\ before' = hash_map
    /\ op' = "validate"
    /\ lit' = NoLit
    /\ UNCHANGED <<all_keys, map_type, panicked, concVars, timeVars, logVars>>

\* validate_hash_map(&hash_map): the map is borrowed immutably
Call ==
    /\ ~panicked
    /\ lit.ok
    /\ map_type = "hashbrown"
    /\ Len(verdicts) < MaxCalls
    /\ verdicts' = Append(verdicts, validate_hash_map(hash_map, all_keys))
    /\ before' = hash_map
    /\ op' = "validate"
    /\ lit' = NoLit
    /\ UNCHANGED <<all_keys, map_type, hash_map, panicked, concVars, timeVars, logVars>>

\* An assertion that never fires (debug_assert! in a release build).
AssertSilent ==
    /\ ~panicked
    /\ lit.ok
    /\ map_type = "hashbrown"
    /\ before' = hash_map
    /\ op' = "assert"
    /\ lit' = NoLit
    /\ UNCHANGED <<all_keys, map_type, hash_map, verdicts, panicked, concVars, timeVars, logVars>>

\* validate_hash_map!(&hash_map)  ==>  assert!(validate_hash_map(&hash_map));
\* a panic ends the caller: no operation follows it.
AssertValid ==
    /\ ~panicked
    /\ lit.ok
    /\ map_type = "hashbrown"
    /\ panicked' = ~validate_hash_map(hash_map, all_keys)
    /\ before' = hash_map
    /\ op' = "assert"
    /\ lit' = NoLit
    /\ UNCHANGED <<all_keys, map_type, hash_map, verdicts, concVars, timeVars, logVars>>

\* let hash_map = ns_hashmap!{ k1 => v1, ... };  at some call site
NsHashmap ==
    /\ op = "new"
    /\ \E site \in CallSites, pairs \in PairSeqs :
         LET r == ns_hashmap(site, pairs) IN
         /\ lit' = [macro |-> "ns_hashmap", site |-> site, pairs |-> pairs, ok |-> r.ok]
         /\ hash_map' = r.map
         /\ map_type' = IF r.ok THEN r.type ELSE map_type
         /\ before' = hash_map
         /\ op' = "ns_hashmap"
         /\ UNCHANGED <<all_keys, verdicts, panicked, concVars, timeVars, logVars>>

\* let hash_map = hashmap!{ k1 => v1, ... };  at some call site
Hashmap ==
    /\ op = "new"
    /\ \E site \in CallSites, pairs \in PairSeqs :
         LET r == hashmap(site, pairs) IN
         /\ lit' = [macro |-> "hashmap", site |-> site, pairs |-> pairs, ok |-> r.ok]
         /\ hash_map' = r.map
         /\ map_type' = IF r.ok THEN r.type ELSE map_type
         /\ before' = hash_map
         /\ op' = "hashmap"
         /\ UNCHANGED <<all_keys, verdicts, panicked, concVars, timeVars, logVars>>

Next == Insert \/ Call \/ AssertValid \/ NsHashmap \/ Hashmap

Spec == Init /\ [][Next]_vars

\* ---- validate_hash_map, statement by statement, for concurrent callers ----
UnitMaps ==
    {m \in SeqsUpTo(KeyUniverse, MaxKey) : \A a, b \in 1..Len(m) : a # b => m[a] # m[b]}

\* the maps the callers can share: any set of keys, in any bucket order
SharedMaps == {[i \in 1..Len(m) |-> [key |-> m[i], val |-> 1]] : m \in UnitMaps}

InitConc ==
    /\ all_keys \in Enumerations
    /\ hash_map \in SharedMaps
    /\ SeqIdle
    /\ ConcIdle
    /\ TimeIdle
    /\ LogIdle

\* let all_keys = K::iter().collect::<Vec<_>>();
Collect(p) ==
    /\ pc[p] = "idle"
    /\ local_keys' = [local_keys EXCEPT ![p] = all_keys]
    /\ pc' = [pc EXCEPT ![p] = "len"]
    /\ UNCHANGED <<all_keys, hash_map, seqVars, timeVars, logVars, idx, ret>>

\* if hash_map.len() != all_keys.len() { return false; }
CheckLen(p) ==
    /\ pc[p] = "len"
    /\ IF len(hash_map) # Len(local_keys[p])
       THEN /\ ret' = [ret EXCEPT ![p] = FALSE]
            /\ pc' = [pc EXCEPT ![p] = "done"]
            /\ UNCHANGED idx
       ELSE /\ idx' = [idx EXCEPT ![p] = 1]
            /\ pc' = [pc EXCEPT ![p] = "scan"]
            /\ UNCHANGED ret
    /\ UNCHANGED <<all_keys, hash_map, seqVars, timeVars, logVars, local_keys>>

\* A loop whose iterator is one static shared by all callers: taking a key
\* advances every caller.
ScanStepSharedIterator(p) ==
    /\ pc[p] = "scan"
    /\ IF idx[p] > Len(local_keys[p])
       THEN /\ ret' = [ret EXCEPT ![p] = TRUE]
            /\ pc' = [pc EXCEPT ![p] = "done"]
            /\ UNCHANGED idx
       ELSE /\ idx' = [q \in Callers |-> idx[p] + 1]
            /\ IF ~contains_key(hash_map, local_keys[p][idx[p]])
               THEN /\ ret' = [ret EXCEPT ![p] = FALSE]
                    /\ pc' = [pc EXCEPT ![p] = "done"]
               ELSE UNCHANGED <<ret, pc>>
    /\ UNCHANGED <<all_keys, hash_map, seqVars, timeVars, logVars, local_keys>>

\* one turn of  for key in all_keys { if !hash_map.contains_key(&key) { return false; } }
\* and the final  true
ScanStep(p) ==
    /\ pc[p] = "scan"
    /\ IF idx[p] > Len(local_keys[p])
       THEN /\ ret' = [ret EXCEPT ![p] = TRUE]
            /\ pc' = [pc EXCEPT ![p] = "done"]
            /\ UNCHANGED idx
       ELSE IF ~contains_key(hash_map, local_keys[p][idx[p]])
       THEN /\ ret' = [ret EXCEPT ![p] = FALSE]
            /\ pc' = [pc EXCEPT ![p] = "done"]
            /\ UNCHANGED idx
       ELSE /\ idx' = [idx EXCEPT ![p] = idx[p] + 1]
            /\ UNCHANGED <<ret, pc>>
    /\ UNCHANGED <<all_keys, hash_map, seqVars, timeVars, logVars, local_keys>>

NextConc == \E p \in Callers : Collect(p) \/ CheckLen(p) \/ ScanStep(p)

SpecConc == InitConc /\ [][NextConc]_vars

\* ---- test::measure_time ----
\* The repeat counts tried: small ones, the default, and counts at and above
\* the 32-bit boundaries.
TimesInputs ==
    {TimesOf(n) : n \in 0..MaxTimes}
        \cup { DefaultTimes,
               <<0, 0, 32768, 0>>,              \* 2^31
               <<0, 0, 65535, 65535>>,          \* 2^32 - 1
               <<0, 1, 0, 0>>,                  \* 2^32
               <<0, 1, 0, 2>>,                  \* 2^32 + 2
               <<65535, 65535, 65535, 65535>> } \* u64::MAX

InitTime ==
    /\ all_keys = <<>>
    /\ hash_map = <<>>
    /\ SeqIdle
    /\ ConcIdle
    /\ TimeIdle
    /\ LogIdle

\* let start = Instant::now();  and the range 0..times.clone().into()
measure_time_start ==
    /\ t_pc = "idle"
    /\ \E t \in TimesInputs, c \in 0..MaxCost :
         /\ times' = t
         /\ cost' = c
    /\ start' = now
    /\ loop_i' = 0
    /\ t_pc' = "loop"
    /\ UNCHANGED <<all_keys, hash_map, seqVars, concVars, logVars, invocations, now, avg>>

\* for _ in 0..end { predicate(); }   The range has no type annotation: its
\* bound is an integer variable with several Into impls to choose from, which
\* the compiler settles by the integer fallback, i32.
measure_time_loop ==
    /\ t_pc = "loop"
    /\ loop_i < into_i32(times)
    /\ invocations' = invocations + 1
    /\ now' = now + cost
    /\ loop_i' = loop_i + 1
    /\ UNCHANGED <<all_keys, hash_map, seqVars, concVars, logVars, t_pc, times, cost, start, avg>>

\* let global_duration = start.elapsed();  global_duration / times.into()
\* Duration implements Div<u32> only, so this into() is Into<u32>; a zero
\* divisor panics.
measure_time_return ==
    /\ t_pc = "loop"
    /\ ~(loop_i < into_i32(times))
    /\ IF into_u32(times) = <<0, 0>>
       THEN /\ t_pc' = "panic"
            /\ UNCHANGED avg
       ELSE /\ t_pc' = "done"
            /\ avg' = DivDuration(now - start, into_u32(times))
    /\ UNCHANGED <<all_keys, hash_map, seqVars, concVars, logVars, times, cost, loop_i, invocations, now, start>>

NextTime == measure_time_start \/ measure_time_loop \/ measure_time_return

SpecTime == InitTime /\ [][NextTime]_vars

\* ---- test::enable_loggings ----
\* log::Level, and log::LevelFilter with Off below them
Levels == {"Error", "Warn", "Info", "Debug", "Trace"}

LevelOrd(l) ==
    CASE l = "Off" -> 0
      [] l = "Error" -> 1
      [] l = "Warn" -> 2
      [] l = "Info" -> 3
      [] l = "Debug" -> 4
      [] l = "Trace" -> 5

\* What RUST_LOG can hold when the process starts.
RustLogInputs == {"unset", "off", "error", "warn", "info", "debug", "trace"}

\* env_logger::builder(): the filter read from RUST_LOG; error when it is unset.
ParseFilter(s) ==
    CASE s = "unset" -> "Error"
      [] s = "off" -> "Off"
      [] s = "error" -> "Error"
      [] s = "warn" -> "Warn"
      [] s = "info" -> "Info"
      [] s = "debug" -> "Debug"
      [] s = "trace" -> "Trace"

\* the match of the format closure
Color(level) ==
    CASE level = "Trace" -> "Magenta"
      [] level = "Debug" -> "Blue"
      [] level = "Info" -> "Green"
      [] level = "Warn" -> "Yellow"
      [] level = "Error" -> "Red"

InitLog ==
    /\ all_keys = <<>>
    /\ hash_map = <<>>
    /\ SeqIdle
    /\ ConcIdle
    /\ TimeIdle
    /\ rust_log \in RustLogInputs
    /\ LogFresh

\* enable_loggings is three calls with no lock held across them, and one
\* process has several test threads; each thread takes the steps in order.
\* let _ = env::set_var("RUST_LOG", "debug");
set_var(t) ==
    /\ log_pc[t] = "idle"
    /\ log_started < MaxLogCalls
    /\ log_started' = log_started + 1
    /\ rust_log' = "debug"
    /\ log_pc' = [log_pc EXCEPT ![t] = "set"]
    /\ UNCHANGED <<all_keys, hash_map, seqVars, concVars, timeVars,
                   logger, max_level, installs, log_calls, log_panicked, output, log_filter>>

\* env_logger::builder().is_test(true).format(..): the filter is read from RUST_LOG
builder(t) ==
    /\ log_pc[t] = "set"
    /\ log_filter' = [log_filter EXCEPT ![t] = ParseFilter(rust_log)]
    /\ log_pc' = [log_pc EXCEPT ![t] = "built"]
    /\ UNCHANGED <<all_keys, hash_map, seqVars, concVars, timeVars,
                   rust_log, logger, max_level, installs, log_calls, log_started, log_panicked, output>>

\* try_init() replaced by init(): with a logger installed already the call
\* panics instead of returning the Err.
set_boxed_logger_or_panic(t) ==
    /\ log_pc[t] = "built"
    /\ IF logger = "none"
       THEN /\ logger' = log_filter[t]
            /\ installs' = installs + 1
            /\ log_pc' = [log_pc EXCEPT ![t] = "boxed"]
            /\ UNCHANGED <<log_calls, log_panicked>>
       ELSE /\ log_pc' = [log_pc EXCEPT ![t] = "idle"]
            /\ log_calls' = log_calls + 1
            /\ log_panicked' = TRUE
            /\ UNCHANGED <<logger, installs>>
    /\ UNCHANGED <<all_keys, hash_map, seqVars, concVars, timeVars,
                   rust_log, max_level, log_started, output, log_filter>>

\* try_init(), first half: log::set_boxed_logger.  With a logger installed
\* already it is Err and try_init returns; let _ = drops the Err.
set_boxed_logger(t) ==
    /\ log_pc[t] = "built"
    /\ IF logger = "none"
       THEN /\ logger' = log_filter[t]
            /\ installs' = installs + 1
            /\ log_pc' = [log_pc EXCEPT ![t] = "boxed"]
            /\ UNCHANGED log_calls
       ELSE /\ log_pc' = [log_pc EXCEPT ![t] = "idle"]
            /\ log_calls' = log_calls + 1
            /\ UNCHANGED <<logger, installs>>
    /\ UNCHANGED <<all_keys, hash_map, seqVars, concVars, timeVars,
                   rust_log, max_level, log_started, log_panicked, output, log_filter>>

\* try_init(), second half, after an Ok: log::set_max_level, a separate store
set_max_level(t) ==
    /\ log_pc[t] = "boxed"
    /\ max_level' = log_filter[t]
    /\ log_pc' = [log_pc EXCEPT ![t] = "idle"]
    /\ log_calls' = log_calls + 1
    /\ UNCHANGED <<all_keys, hash_map, seqVars, concVars, timeVars,
                   rust_log, logger, installs, log_started, log_panicked, output, log_filter>>

enable_loggings(t) == set_var(t) \/ builder(t) \/ set_boxed_logger(t) \/ set_max_level(t)

\* A thread that is not inside enable_loggings logs a record: it is written,
\* in the color of its level, when a logger is installed and the level passes
\* max_level and the logger's filter; otherwise it is dropped.
Log(t) ==
    /\ log_pc[t] = "idle"
    /\ Len(output) < MaxLines
    /\ \E level \in Levels :
         /\ logger # "none"
         /\ LevelOrd(level) <= LevelOrd(max_level)
         /\ LevelOrd(level) <= LevelOrd(logger)
         /\ output' = Append(output, [color |-> Color(level), level |-> level])
    /\ UNCHANGED <<all_keys, hash_map, seqVars, concVars, timeVars,
                   rust_log, logger, max_level, installs, log_calls, log_started,
                   log_panicked, log_pc, log_filter>>

NextLog == \E t \in Threads : enable_loggings(t) \/ Log(t)

SpecLog == InitLog /\ [][NextLog]_vars

\* ---- properties of the validator ----
Members == {all_keys[i] : i \in 1..Len(all_keys)}

Verdict == verdicts[Len(verdicts)]

Validated == op = "validate" /\ Len(verdicts) >= 1

\* C1: for a map whose keys are all members of the enumeration, the verdict is
\* true exactly when the map has n entries and every member is one of its keys.
C1_ExactCoverage ==
    (Validated /\ KeySet(hash_map) \subseteq Members)
        => (Verdict <=> (/\ Cardinality(KeySet(hash_map)) = Cardinality(Members)
                         /\ \A k \in Members : k \in KeySet(hash_map)))

C1_Witness ==
    /\ Validated
    /\ KeySet(hash_map) \subseteq Members
    /\ Cardinality(Members) >= 2
    /\ Verdict

\* C2: a map holding a key that is not a member of the enumeration gets the
\* verdict false, whether or not its entry count equals the member count; so
\* a true verdict means the key set equals the member set.
C2_ForeignKeyRejected ==
    Validated =>
        /\ (\E k \in KeySet(hash_map) : k \notin Members) => ~Verdict
        /\ Verdict => KeySet(hash_map) = Members

C2_Witness ==
    /\ Validated
    /\ \E k \in KeySet(hash_map) : k \notin Members
    /\ \A k \in Members : k \in KeySet(hash_map)
    /\ Members # {}
    /\ ~Verdict

\* C3: no members and an empty map: true.  One member: true for the map
\* holding exactly that key, false for the empty map.
C3_Boundaries ==
    Validated =>
        /\ (all_keys = <<>> /\ hash_map = <<>>) => Verdict
        /\ (Len(all_keys) = 1 /\ KeySet(hash_map) = {all_keys[1]}) => Verdict
        /\ (Len(all_keys) = 1 /\ hash_map = <<>>) => ~Verdict

C3_Witness ==
    /\ Validated
    /\ all_keys = <<>>
    /\ hash_map = <<>>
    /\ Verdict

\* C4: a call leaves the map as it was, and repeated calls on the unmodified
\* map all return the verdict of the first.
C4_ReadOnly ==
    Validated =>
        /\ hash_map = before
        /\ \A i \in 1..Len(verdicts) : verdicts[i] = verdicts[1]

C4_Witness ==
    /\ Validated
    /\ Len(verdicts) >= 2
    /\ hash_map # <<>>
    /\ Verdict

\* C5: validate_hash_map! panics exactly when the predicate is false for the
\* map, and otherwise completes and leaves the map unchanged.
C5_AssertMacro ==
    op = "assert" =>
        /\ panicked <=> ~validate_hash_map(hash_map, all_keys)
        /\ hash_map = before

C5_Witness ==
    /\ op = "assert"
    /\ panicked
    /\ hash_map # <<>>
    /\ all_keys # <<>>

\* the value of the last pair of the list that carries key k
LastValue(pairs, k) ==
    LET i == CHOOSE j \in 1..Len(pairs) :
                 /\ pairs[j][1] = k
                 /\ \A h \in (j + 1)..Len(pairs) : pairs[h][1] # k
    IN pairs[i][2]

SuppliedKeys(pairs) == {pairs[i][1] : i \in 1..Len(pairs)}

\* C6: both literal macros yield a map with one entry per distinct key
\* supplied, each key bound to the value of the last pair that carries it.
C6_LiteralMacros ==
    op \in {"ns_hashmap", "hashmap"} =>
        /\ lit.ok
        /\ len(hash_map) = Cardinality(SuppliedKeys(lit.pairs))
        /\ \A k \in SuppliedKeys(lit.pairs) :
             contains_key(hash_map, k) /\ get(hash_map, k) = LastValue(lit.pairs, k)

\* the maps with the entries of m under other values, and in other orders
Revalued(m) ==
    {[i \in 1..Len(m) |-> [key |-> m[i].key, val |-> f[i]]] : f \in [1..Len(m) -> Values]}

Reordered(m) ==
    {[i \in 1..Len(m) |-> m[p[i]]] :
        p \in {q \in [1..Len(m) -> 1..Len(m)] : \A a, b \in 1..Len(m) : a # b => q[a] # q[b]}}

\* C10: the verdict is the same for every map with the same keys, whatever
\* the values and whatever the order of the entries.
C10_KeysOnly ==
    Validated =>
        \A m \in Revalued(hash_map) \cup Reordered(hash_map) :
            validate_hash_map(m, all_keys) = Verdict

C10_Witness ==
    /\ Validated
    /\ Len(hash_map) >= 2
    /\ Verdict
    /\ hash_map[1].key > hash_map[2].key

\* C7: every concurrent call returns what the call returns when run alone on
\* the same map, however the callers' steps interleave.
C7_Reentrant ==
    \A p \in Callers :
        pc[p] = "done" => ret[p] = validate_hash_map(hash_map, all_keys)

C7_Witness ==
    \E p, q \in Callers :
        /\ p # q
        /\ pc[p] = "done"
        /\ ret[p]
        /\ pc[q] = "scan"
        /\ idx[q] >= 2

\* a count below 2^31, as an integer
FitsInt(t) == t[1] = 0 /\ t[2] = 0 /\ t[3] < Word \div 2

ToInt(t) == t[3] * Word + t[4]

\* C8: measure_time invokes the operation exactly `times` times and returns
\* the elapsed time divided by `times`.
C8_AverageOverTimes ==
    t_pc = "done" =>
        /\ FitsInt(times)
        /\ invocations = ToInt(times)
        /\ avg = (now - start) \div ToInt(times)

\* no thread is inside enable_loggings
LogQuiescent == \A t \in Threads : log_pc[t] = "idle"

\* C9: after any sequence of one or more enable_loggings calls the logger is
\* installed exactly once, with the debug filter and the debug max level, and
\* no call has panicked.  Installed once with the debug filter holds as soon
\* as one call has returned, also while other threads are inside a call.
C9_IdempotentInit ==
    log_calls >= 1 =>
        /\ installs = 1
        /\ logger = "Debug"
        /\ ~log_panicked
        /\ LogQuiescent => max_level = "Debug"

C9_Witness ==
    /\ LogQuiescent
    /\ log_calls >= 2
    /\ installs = 1
    /\ max_level = "Debug"
    /\ Len(output) >= 1
    /\ output[1].level = "Debug"
====
